---- MODULE Spec2Model ----
(***************************************************************************)
(* A model of nba_clusters.py: the batch stat collector get_player_stats   *)
(* (one blocking fetch per roster row, a fixed sleep after each, a left    *)
(* join at the end), the cluster selector cluster() (a scan over the       *)
(* candidate counts 2..8 keeping the best silhouette, then the report of   *)
(* identity records per label) and the driver main().                      *)
(*                                                                         *)
(* Tables are sequences of records.  A display name is a sequence of       *)
(* one-character strings, so that str.split() is modelled by what it does. *)
(* The network, KMeans and silhouette_score are the environment: their     *)
(* results are chosen nondeterministically among the results they can give.*)
(***************************************************************************)
EXTENDS Integers, Sequences, FiniteSets

VARIABLES
  pc,                 \* position of the program
  df_players,         \* get_player_stats' argument: the roster table
  i,                  \* enumerate index of the fetch loop (line 54)
  df_stats,           \* the accumulated stats table, unbound before the first fetch
  requests,           \* history: the identifiers requested from the stats endpoint
  in_flight,          \* history: requests sent and not yet answered
  slept,              \* history: time units slept since the last response arrived
  failed_at,          \* history: 1-based position of the fetch that failed, 0 if none
  players_df,         \* cluster()'s argument: the joined table
  sil_distinct,       \* environment: the silhouette of the partition that puts every
                      \* distinct feature vector of the data in a cluster of its own,
                      \* None until silhouette_score has computed it
  n,                  \* loop variable of the scan (line 80), None before the scan
  scores,             \* history: the silhouette of every candidate scored so far
  optimal_n,
  optimal_clusters,
  optimal_clusterer,
  optimal_silhouette,
  clusters,           \* the report built at lines 91-99
  printed,            \* main() has printed the report (line 117)
  fault,              \* the unhandled exception that ended the run, "" if none
  name_in,            \* a display name handed to the identity-record construction
  identity            \* the identity record built from name_in

vars == <<pc, df_players, i, df_stats, requests, in_flight, slept, failed_at,
          players_df, sil_distinct, n, scores, optimal_n, optimal_clusters,
          optimal_clusterer, optimal_silhouette, clusters, printed, fault,
          name_in, identity>>

fetchVars == <<df_players, i, df_stats, requests, in_flight, slept, failed_at>>
scanVars == <<n, scores, optimal_n, optimal_clusters, optimal_clusterer,
              optimal_silhouette>>
nameVars == <<name_in, identity>>

----------------------------------------------------------------------------
(* Bounds of the model *)

MaxRoster == 9      \* longest roster handed to get_player_stats
MaxRows == 9        \* longest table handed to cluster() directly
MaxPoints == 8      \* most distinct feature vectors in a table handed to cluster()
MaxStat == 3        \* distinct statistics the stats endpoint holds
MaxScore == 1       \* silhouette values are drawn from 0..MaxScore
MaxNameLen == 5     \* longest display name, in characters

----------------------------------------------------------------------------
(* Values *)

\* Python's None, for the integer-valued variables (line 76).
None == -1
\* The null stat field of an unmatched roster row after the left join (line 64).
NaN == -1

Min(a, b) == IF a < b THEN a ELSE b
Last(s) == s[Len(s)]

RECURSIVE Concat(_)
\* The concatenation of a sequence of sequences.
Concat(ss) == IF ss = <<>> THEN <<>> ELSE Head(ss) \o Concat(Tail(ss))

----------------------------------------------------------------------------
(* str.split(): lines 96-97 *)

Whitespace == {" ", "\t"}
IsSpace(c) == c \in Whitespace

RECURSIVE SplitFrom(_, _, _, _)
\* Scans s from position j; cur is the token being read, acc the tokens read.
SplitFrom(s, j, cur, acc) ==
  IF j > Len(s)
    THEN (IF cur = <<>> THEN acc ELSE Append(acc, cur))
    ELSE IF IsSpace(s[j])
      THEN SplitFrom(s, j + 1, <<>>, IF cur = <<>> THEN acc ELSE Append(acc, cur))
      ELSE SplitFrom(s, j + 1, Append(cur, s[j]), acc)

\* s.split(): the maximal runs of non-whitespace characters of s, in order.
Split(s) == SplitFrom(s, 1, <<>>, <<>>)

\* split()[-1] and split()[0] raise IndexError on an empty token list.
SplitRaises(s) == Split(s) = <<>>

IdentityRecordSwapped(pid, s) ==
  [player_id |-> pid, first_name |-> Split(s)[1], last_name |-> Last(Split(s))]

\* The dict built at lines 94-98.
IdentityRecord(pid, s) ==
  [player_id |-> pid, first_name |-> Last(Split(s)), last_name |-> Split(s)[1]]

----------------------------------------------------------------------------
(* The stats endpoint and get_player_career_reg_season_stats: lines 39-43 *)

\* The per-game statistic the endpoint holds for a player.
StatOf(pid) == ((pid - 1) % MaxStat) + 1

\* What one request for pid can come back with: a transport failure, a body that
\* is not JSON, JSON without resultSets[1], a row whose PLAYER_ID is no number,
\* or career totals of zero rows or one row.
Responses(pid) ==
  { [kind |-> k, rowSet |-> <<>>] :
      k \in {"network_error", "invalid_json", "no_result_set", "non_numeric_id"} }
  \cup { [kind |-> "ok", rowSet |-> <<>>],
         [kind |-> "ok", rowSet |-> << [PLAYER_ID |-> pid, STAT |-> StatOf(pid)] >>] }

RaisesOnlyOnTransport(resp) == resp.kind = "network_error"

\* requests.get, json.loads, the subscripts and astype(int) raise on a failure.
Raises(resp) == resp.kind # "ok"

ExceptionOf(resp) ==
  CASE resp.kind = "network_error" -> "ConnectionError"
    [] resp.kind = "invalid_json" -> "JSONDecodeError"
    [] resp.kind = "no_result_set" -> "KeyError"
    [] resp.kind = "non_numeric_id" -> "ValueError"
    [] OTHER -> ""

----------------------------------------------------------------------------
(* get_player_stats: lines 54-64 *)

\* time.sleep(2), line 62.
SleepSecs == 2

PauseSkipped(t) == t
\* The time slept since the last response, after the sleep of line 62.
Pause(t) == t + SleepSecs

Unbound == [bound |-> FALSE, rows |-> <<>>]
Bound(rows) == [bound |-> TRUE, rows |-> rows]

\* Lines 55-60: the first result is assigned, every later one appended.
Accumulate(idx, stats, rows) ==
  IF idx = 0 THEN Bound(rows) ELSE Bound(stats.rows \o rows)

\* The stats rows whose PLAYER_ID is pid, in their order.
Matching(stats, pid) == SelectSeq(stats, LAMBDA st : st.PLAYER_ID = pid)

JoinedRow(row, pid, stat) ==
  [PERSON_ID |-> row.PERSON_ID,
   DISPLAY_LAST_COMMA_FIRST |-> row.DISPLAY_LAST_COMMA_FIRST,
   PLAYER_ID |-> pid, STAT |-> stat]

\* The joined rows one roster row gives: one per match, or one with nulls.
LeftRows(row, stats) ==
  LET m == Matching(stats, row.PERSON_ID) IN
  IF m = <<>>
    THEN << JoinedRow(row, NaN, NaN) >>
    ELSE [k \in 1..Len(m) |-> JoinedRow(row, m[k].PLAYER_ID, m[k].STAT)]

InnerRows(row, stats) ==
  LET m == Matching(stats, row.PERSON_ID) IN
  [k \in 1..Len(m) |-> JoinedRow(row, m[k].PLAYER_ID, m[k].STAT)]

InnerJoin(left, stats) ==
  Concat([r \in 1..Len(left) |-> InnerRows(left[r], stats)])

\* df_players.merge(df_stats, left_on="PERSON_ID", right_on="PLAYER_ID", how='left')
Merge(left, stats) ==
  Concat([r \in 1..Len(left) |-> LeftRows(left[r], stats)])

----------------------------------------------------------------------------
(* KMeans(n_clusters=k).fit_predict and silhouette_score: lines 81-83 *)

\* The values the silhouette can take in the model; every one of them, like every
\* value of the metric, is above the initial optimal_silhouette.
Scores == 0..MaxScore

\* The distinct feature vectors of the table (one feature column, STAT).
DistinctStats(X) == {X[r].STAT : r \in DOMAIN X}

\* The position of v among the distinct feature vectors, in ascending order.
Rank(X, v) == Cardinality({u \in DistinctStats(X) : u <= v})

\* KMeans raises ValueError on a null feature and on fewer rows than clusters.
FitRaises(X, k) == NaN \in DistinctStats(X) \/ Len(X) < k

\* The ways of cutting d points on a line into b consecutive non-empty groups:
\* the set of the positions at which a new group starts.
Cuts(d, b) == {C \in SUBSET (2..d) : Cardinality(C) = b - 1}

\* The group (from 0) of the point at position rank under the cuts C.
BlockOf(C, rank) == Cardinality({c \in C : c <= rank})

\* The number of non-empty clusters a fit with k clusters finds: k when the
\* data hold at least k distinct vectors, and with fewer (duplicate points) one
\* for each distinct vector, the other labels going unused.
ClustersFound(X, k) == Min(k, Cardinality(DistinctStats(X)))

\* The label arrays fit_predict can return, one label per row, each in 0..k-1.
\* Rows with the same feature vector get the same label; the clusters are
\* consecutive groups of the distinct vectors; which group gets which label is
\* the fit's choice, here between the groups numbered in ascending order and
\* that numbering rotated by one.
FitPredict(X, k) ==
  { [r \in 1..Len(X) |-> (BlockOf(C, Rank(X, X[r].STAT)) + shift) % k] :
      C \in Cuts(Cardinality(DistinctStats(X)), ClustersFound(X, k)),
      shift \in {0, k - 1} }

LabelsUsed(labels) == {labels[r] : r \in DOMAIN labels}

\* silhouette_score raises ValueError unless 2 <= number of labels <= rows - 1;
\* u is the number of distinct labels of the fit.
SilhouetteRaises(X, u) == u < 2 \/ u > Len(X) - 1

\* The fit put every distinct feature vector in a cluster of its own.
AllDistinct(X, u) == u = Cardinality(DistinctStats(X))

\* The values silhouette_score can return for a fit with u distinct labels: it
\* is a function of the data and the partition, so the partition into single
\* distinct vectors scores what it scored before; any other partition scores
\* whatever the data make it score.
SilhouetteScore(X, u) ==
  IF AllDistinct(X, u) /\ sil_distinct # None
    THEN {sil_distinct}
    ELSE Scores

----------------------------------------------------------------------------
(* cluster(): lines 76-100 *)

\* range(2,9), line 80.
FirstN == 2
LastN == 8

InitSilhouetteTop == MaxScore
\* optimal_silhouette=-99, line 79.
InitSilhouette == -99

NoClusterer == [n_clusters |-> None, labels_ |-> <<>>]

BetterOrEqual(score, best) == score >= best
\* The comparison of line 85.
Better(score, best) == score > best

\* {n: [] for n in range(optimal_n)}, line 91.
EmptyClusters(k) == [c \in 0..(k - 1) |-> <<>>]

RECURSIVE Fill(_, _, _, _)
\* The loop of lines 92-99 from row r on: each row's record is appended to the
\* list of the row's label.
Fill(cl, X, labels, r) ==
  IF r > Len(X)
    THEN cl
    ELSE Fill([cl EXCEPT ![labels[r]] =
                 Append(@, IdentityRecord(X[r].PERSON_ID, X[r].DISPLAY_LAST_COMMA_FIRST))],
              X, labels, r + 1)

ClusterReportFromSecond(X, labels, k) == Fill(EmptyClusters(k), X, labels, 2)
\* Lines 91-100.
ClusterReport(X, labels, k) == Fill(EmptyClusters(k), X, labels, 1)

\* Some row's display name has no token: split()[-1] raises IndexError.
ReportRaises(X) == \E r \in DOMAIN X : SplitRaises(X[r].DISPLAY_LAST_COMMA_FIRST)

----------------------------------------------------------------------------
(* Inputs *)

NameCommaFirst == <<"S", ",", " ", "J">>
NameSingle == <<"S">>
NameMiddle == <<"S", " ", "M", " ", "J">>
NameList == <<NameCommaFirst, NameSingle, NameMiddle>>
NameOf(id) == NameList[((id - 1) % Len(NameList)) + 1]
BlankName == <<" ", " ">>

RosterRow(id) == [PERSON_ID |-> id, DISPLAY_LAST_COMMA_FIRST |-> NameOf(id)]

\* A roster of len rows with identifiers 1..len; with dup, the last row repeats
\* the identifier of the first.
Roster(len, dup) ==
  [r \in 1..len |-> RosterRow(IF dup /\ r = len THEN 1 ELSE r)]

Rosters == {Roster(len, dup) : len \in 0..MaxRoster, dup \in BOOLEAN}

\* A joined table of rows rows over p distinct feature vectors.
Table(rows, p) ==
  [r \in 1..rows |-> JoinedRow(RosterRow(r), r, ((r - 1) % p) + 1)]

Tables ==
  {Table(rows, p) : rows \in 1..MaxRows, p \in 1..MaxStat}
  \cup {Table(MaxRows, MaxPoints)}
  \cup {[Table(MaxRows, 2) EXCEPT ![MaxRows].STAT = NaN]}
  \cup {[Table(MaxRows, 2) EXCEPT ![1].DISPLAY_LAST_COMMA_FIRST = BlankName]}

Alphabet == {"S", ",", " ", "\t"}
SmithJohn == <<"S", "m", "i", "t", "h", ",", " ", "J", "o", "h", "n">>
Names == UNION {[1..k -> Alphabet] : k \in 0..MaxNameLen} \cup {SmithJohn}

NoIdentity == [player_id |-> None, first_name |-> <<>>, last_name |-> <<>>]

----------------------------------------------------------------------------
(* Initial states *)

ScanInit ==
  /\ n = None
  /\ scores = <<>>
  /\ optimal_n = None
  /\ optimal_clusters = <<>>
  /\ optimal_clusterer = NoClusterer
  /\ optimal_silhouette = InitSilhouette
  /\ clusters = <<>>
  /\ printed = FALSE
  /\ fault = ""

FetchInit ==
  /\ i = 0
  /\ df_stats = Unbound
  /\ requests = <<>>
  /\ in_flight = 0
  /\ slept = 0
  /\ failed_at = 0

\* main() at line 115, about to call get_player_stats on the sampled roster.
Init ==
  /\ pc = "loop"
  /\ df_players \in Rosters
  /\ FetchInit
  /\ players_df = Unbound
  /\ sil_distinct = None
  /\ ScanInit
  /\ name_in = <<>>
  /\ identity = NoIdentity

\* A call of cluster() on a table.
InitCluster ==
  /\ pc = "call_cluster"
  /\ df_players = <<>>
  /\ FetchInit
  /\ players_df \in {Bound(T) : T \in Tables}
  /\ sil_distinct = None
  /\ ScanInit
  /\ name_in = <<>>
  /\ identity = NoIdentity

\* The construction of one identity record from a display name.
InitNames ==
  /\ pc = "name"
  /\ df_players = <<>>
  /\ FetchInit
  /\ players_df = Unbound
  /\ sil_distinct = None
  /\ ScanInit
  /\ name_in \in Names
  /\ identity = NoIdentity

----------------------------------------------------------------------------
(* get_player_stats *)

\* Line 54 yields the next identifier and line 56 or 59 sends its request.
FetchStart ==
  /\ pc = "loop"
  /\ i < Len(df_players)
  /\ requests' = Append(requests, df_players[i + 1].PERSON_ID)
  /\ in_flight' = in_flight + 1
  /\ pc' = "in_flight"
  /\ UNCHANGED <<df_players, i, df_stats, slept, failed_at, players_df,
                 sil_distinct, scanVars, clusters, printed, fault, nameVars>>

\* The response arrives: lines 39-43, then lines 55-61.
FetchReturn ==
  /\ pc = "in_flight"
  /\ \E resp \in Responses(Last(requests)) :
       /\ in_flight' = in_flight - 1
       /\ slept' = 0
       /\ failed_at' = IF resp.kind # "ok" THEN i + 1 ELSE failed_at
       /\ IF Raises(resp)
            THEN /\ pc' = "fault"
                 /\ fault' = ExceptionOf(resp)
                 /\ UNCHANGED df_stats
            ELSE /\ pc' = "sleeping"
                 /\ df_stats' = Accumulate(i, df_stats, resp.rowSet)
                 /\ UNCHANGED fault
  /\ UNCHANGED <<df_players, i, requests, players_df, sil_distinct, scanVars,
                 clusters, printed, nameVars>>

\* Line 62, then the loop moves on.
Sleep ==
  /\ pc = "sleeping"
  /\ slept' = Pause(slept)
  /\ i' = i + 1
  /\ pc' = "loop"
  /\ UNCHANGED <<df_players, df_stats, requests, in_flight, failed_at, players_df,
                 sil_distinct, scanVars, clusters, printed, fault, nameVars>>

\* Line 64, once the loop is exhausted; main() rebinds the result (line 115).
\* df_stats is a local the loop body alone assigns: unbound when the loop never ran.
MergeReturn ==
  /\ pc = "loop"
  /\ i >= Len(df_players)
  /\ IF df_stats.bound
       THEN /\ players_df' = Bound(Merge(df_players, df_stats.rows))
            /\ pc' = "call_cluster"
            /\ UNCHANGED fault
       ELSE /\ pc' = "fault"
            /\ fault' = "UnboundLocalError"
            /\ UNCHANGED players_df
  /\ UNCHANGED <<fetchVars, sil_distinct, scanVars, clusters, printed, nameVars>>

----------------------------------------------------------------------------
(* cluster *)

\* Lines 76-80: the call, the initialisation, the first candidate.
ClusterEnter ==
  /\ pc = "call_cluster"
  /\ optimal_n' = None
  /\ optimal_clusters' = <<>>
  /\ optimal_clusterer' = NoClusterer
  /\ optimal_silhouette' = InitSilhouette
  /\ n' = FirstN
  /\ pc' = "scan"
  /\ UNCHANGED <<fetchVars, players_df, sil_distinct, scores, clusters, printed,
                 fault, nameVars>>

\* The metric's value for the partition into distinct vectors, once computed.
Remember(X, u, avg_silhouette) ==
  IF AllDistinct(X, u) THEN avg_silhouette ELSE sil_distinct

\* One iteration of the scan, lines 81-89: the fit (or its ValueError), the score
\* (or its ValueError), the comparison and the four assignments.  Whether the
\* metric raises and what it can return depend on the fit through its number of
\* distinct labels alone, the same for every fit of the candidate; the label
\* array itself reaches the next state only when line 85 makes it the best.
ScanStep ==
  /\ pc = "scan"
  /\ n <= LastN
  /\ LET X == players_df.rows
         u == ClustersFound(X, n)
     IN
     IF FitRaises(X, n) \/ SilhouetteRaises(X, u)
       THEN /\ pc' = "fault"
            /\ fault' = "ValueError"
            /\ UNCHANGED <<scanVars, sil_distinct>>
       ELSE \E avg_silhouette \in SilhouetteScore(X, u) :
              /\ sil_distinct' = Remember(X, u, avg_silhouette)
              /\ scores' = Append(scores, avg_silhouette)
              /\ IF Better(avg_silhouette, optimal_silhouette)
                   THEN \E cluster_labels \in FitPredict(X, n) :
                          /\ optimal_silhouette' = avg_silhouette
                          /\ optimal_clusterer' =
                               [n_clusters |-> n, labels_ |-> cluster_labels]
                          /\ optimal_clusters' = cluster_labels
                          /\ optimal_n' = n
                   ELSE UNCHANGED <<optimal_silhouette, optimal_clusterer,
                                    optimal_clusters, optimal_n>>
              /\ n' = n + 1
              /\ UNCHANGED <<pc, fault>>
  /\ UNCHANGED <<fetchVars, players_df, clusters, printed, nameVars>>

\* The range is exhausted: line 90.
ScanEnd ==
  /\ pc = "scan"
  /\ n > LastN
  /\ pc' = "report"
  /\ UNCHANGED <<fetchVars, players_df, sil_distinct, scanVars, clusters, printed,
                 fault, nameVars>>

\* Lines 91-100: range(None) raises TypeError, a name without a token IndexError.
Report ==
  /\ pc = "report"
  /\ IF optimal_n = None
       THEN /\ pc' = "fault"
            /\ fault' = "TypeError"
            /\ UNCHANGED clusters
       ELSE IF ReportRaises(players_df.rows)
         THEN /\ pc' = "fault"
              /\ fault' = "IndexError"
              /\ UNCHANGED clusters
         ELSE /\ clusters' = ClusterReport(players_df.rows, optimal_clusters, optimal_n)
              /\ pc' = "returned"
              /\ UNCHANGED fault
  /\ UNCHANGED <<fetchVars, players_df, sil_distinct, scanVars, printed, nameVars>>

\* main(), line 117.
PrintClusters ==
  /\ pc = "returned"
  /\ printed' = TRUE
  /\ pc' = "done"
  /\ UNCHANGED <<fetchVars, players_df, sil_distinct, scanVars, clusters, fault,
                 nameVars>>

\* Lines 94-98 for one row.
BuildIdentity ==
  /\ pc = "name"
  /\ IF SplitRaises(name_in)
       THEN /\ pc' = "fault"
            /\ fault' = "IndexError"
            /\ UNCHANGED identity
       ELSE /\ identity' = IdentityRecord(1, name_in)
            /\ pc' = "built"
            /\ UNCHANGED fault
  /\ UNCHANGED <<fetchVars, players_df, sil_distinct, scanVars, clusters, printed,
                 name_in>>

----------------------------------------------------------------------------
(* Specifications *)

Next ==
  \/ FetchStart
  \/ FetchReturn
  \/ Sleep
  \/ MergeReturn
  \/ ClusterEnter
  \/ ScanStep
  \/ ScanEnd
  \/ Report
  \/ PrintClusters

\* main(): the roster is fetched, joined, clustered and printed.
Spec == Init /\ [][Next]_vars

NextCluster ==
  \/ ClusterEnter
  \/ ScanStep
  \/ ScanEnd
  \/ Report

\* cluster() called on a table.
SpecCluster == InitCluster /\ [][NextCluster]_vars

NextNames == BuildIdentity

\* The identity record of one display name.
SpecNames == InitNames /\ [][NextNames]_vars

----------------------------------------------------------------------------
(* Properties of the cluster selector, checked under SpecCluster *)

ScanOver == pc \in {"report", "returned", "done"}
Returned == pc \in {"returned", "done"}

Max(a, b) == IF a > b THEN a ELSE b
MaxOf(S) == CHOOSE x \in S : \A y \in S : y <= x
MinOf(S) == CHOOSE x \in S : \A y \in S : x <= y

\* The candidates whose score is the highest scored so far: the j-th score is
\* the score of candidate j + 1.
BestCandidates ==
  LET top == MaxOf({scores[j] : j \in DOMAIN scores})
  IN {j + 1 : j \in {q \in DOMAIN scores : scores[q] = top}}

\* C1: the candidates 2..8 are scored once each in ascending order; the selected
\* n is the lowest candidate whose score is the maximum of the scores (a later
\* candidate with an equal score does not replace it), and the labels kept are
\* the labels of the fit made for that n.
C1_LowestBestKept ==
  /\ pc = "scan" => Len(scores) = n - 2
  /\ ScanOver => Len(scores) = 7
  /\ scores # <<>> =>
       /\ optimal_n = MinOf(BestCandidates)
       /\ optimal_silhouette = scores[optimal_n - 1]
       /\ optimal_clusterer.n_clusters = optimal_n
       /\ optimal_clusters = optimal_clusterer.labels_
       /\ DOMAIN optimal_clusters = DOMAIN players_df.rows
       /\ LabelsUsed(optimal_clusters) \subseteq 0..(optimal_n - 1)
       /\ Cardinality(LabelsUsed(optimal_clusters))
            = ClustersFound(players_df.rows, optimal_n)

\* The scan is over, candidate 3 won and candidates 5 and 8 scored the same.
C1_Witness ==
  /\ pc = "report"
  /\ optimal_n = 3
  /\ scores[1] < scores[2]
  /\ scores[4] = scores[2]
  /\ scores[7] = scores[2]

\* C2: at every point the running best n is unset or a candidate of 2..8 already
\* visited; once the scan is over it is set and lies in 2..8.
C2_SelectedInRange ==
  /\ optimal_n = None \/ (optimal_n \in 2..8 /\ optimal_n < n)
  /\ ScanOver => (optimal_n # None /\ optimal_n \in 2..8)

\* The scan is over and the last candidate, 8, won.
C2_Witness == pc = "report" /\ optimal_n = 8

\* The rows the winning fit gave label k.
RowsWithLabel(k) == {r \in DOMAIN optimal_clusters : optimal_clusters[r] = k}

\* The j-th row, in table order, among the rows with label k.
RowAt(k, j) ==
  CHOOSE r \in RowsWithLabel(k) :
    Cardinality({q \in RowsWithLabel(k) : q <= r}) = j

RECURSIVE TotalLen(_, _)
\* The number of records in the lists of f at the keys S.
TotalLen(f, S) ==
  IF S = {} THEN 0
  ELSE LET k == CHOOSE x \in S : TRUE IN Len(f[k]) + TotalLen(f, S \ {k})

\* C3: the report partitions the rows of the table: the list of a label holds one
\* record for each row with that label, in row order, and nothing else, so the
\* records number as many as the rows.
C3_ReportPartitionsRows ==
  Returned =>
    LET X == players_df.rows IN
    /\ DOMAIN optimal_clusters = DOMAIN X
    /\ \A r \in DOMAIN X : optimal_clusters[r] \in DOMAIN clusters
    /\ \A k \in DOMAIN clusters :
         /\ Len(clusters[k]) = Cardinality(RowsWithLabel(k))
         /\ \A j \in 1..Len(clusters[k]) :
              clusters[k][j].player_id = X[RowAt(k, j)].PERSON_ID
    /\ TotalLen(clusters, DOMAIN clusters) = Len(X)

\* A report of three clusters with at least two players each.
C3_Witness ==
  /\ pc = "returned"
  /\ optimal_n = 3
  /\ \A k \in 0..2 : Len(clusters[k]) >= 2

----------------------------------------------------------------------------
(* Properties of the batch stat collector, checked under Spec *)

\* The identifiers of the roster, in row order.
Ids(roster) == [r \in DOMAIN roster |-> roster[r].PERSON_ID]

\* C5: the i-th fetch is for the i-th roster row; at most one request is in
\* flight at any time; a fetch after the first starts after a pause of 2 time
\* units since the previous response; when get_player_stats returns it has made
\* exactly one fetch per roster row.
C5_SequentialPacedFetches ==
  /\ in_flight \in {0, 1}
  /\ in_flight = 1 <=> pc = "in_flight"
  /\ Len(requests) <= Len(df_players)
  /\ requests = SubSeq(Ids(df_players), 1, Len(requests))
  /\ (pc = "in_flight" /\ Len(requests) >= 2) => slept = 2
  /\ players_df.bound => (Len(df_players) >= 1 /\ requests = Ids(df_players))

\* get_player_stats has returned after three fetches.
C5_Witness == pc = "call_cluster" /\ Len(requests) = 3

\* C6: once a fetch has failed the run is over with that exception: no fetch for
\* a later row, no table returned, no scan, no report, nothing printed.
C6_FailureAbortsBatch ==
  failed_at # 0 =>
    /\ pc = "fault"
    /\ fault # ""
    /\ Len(requests) = failed_at
    /\ in_flight = 0
    /\ ~players_df.bound
    /\ n = None
    /\ scores = <<>>
    /\ clusters = <<>>
    /\ ~printed

\* The second of three fetches failed after the first had brought a record.
C6_Witness ==
  /\ failed_at = 2
  /\ Len(df_players) = 3
  /\ df_stats.bound
  /\ Len(df_stats.rows) = 1

\* The number of accumulated stat records for the r-th roster row.
MatchCount(r) ==
  Cardinality({k \in DOMAIN df_stats.rows :
                 df_stats.rows[k].PLAYER_ID = df_players[r].PERSON_ID})

\* The j-th accumulated stat record for the r-th roster row.
NthMatch(r, j) ==
  LET M == {k \in DOMAIN df_stats.rows :
              df_stats.rows[k].PLAYER_ID = df_players[r].PERSON_ID}
  IN df_stats.rows[CHOOSE k \in M : Cardinality({q \in M : q <= k}) = j]

RECURSIVE RowsBefore(_)
\* The number of joined rows the roster rows before the r-th account for.
RowsBefore(r) ==
  IF r <= 1 THEN 0 ELSE RowsBefore(r - 1) + Max(1, MatchCount(r - 1))

\* C7: the table returned is the left join: every roster row appears, in roster
\* order, once for each accumulated stat record with its identifier and with
\* that record's fields, or once with null stat fields when there is none; with
\* unique roster identifiers the result has as many rows as the roster.
C7_LeftJoin ==
  players_df.bound =>
    LET J == players_df.rows IN
    /\ Len(J) = RowsBefore(Len(df_players) + 1)
    /\ \A r \in DOMAIN df_players : \A j \in 1..Max(1, MatchCount(r)) :
         LET row == J[RowsBefore(r) + j] IN
         /\ row.PERSON_ID = df_players[r].PERSON_ID
         /\ row.DISPLAY_LAST_COMMA_FIRST = df_players[r].DISPLAY_LAST_COMMA_FIRST
         /\ IF MatchCount(r) = 0
              THEN row.PLAYER_ID = NaN /\ row.STAT = NaN
              ELSE /\ row.PLAYER_ID = df_players[r].PERSON_ID
                   /\ row.STAT = NthMatch(r, j).STAT
    /\ Cardinality({df_players[r].PERSON_ID : r \in DOMAIN df_players})
         = Len(df_players) => Len(J) = Len(df_players)

\* A join of three roster rows, the second with no stat record.
C7_Witness ==
  /\ players_df.bound
  /\ Len(df_players) = 3
  /\ players_df.rows[1].STAT # NaN
  /\ players_df.rows[2].STAT = NaN

\* C9: on a roster of zero rows get_player_stats makes no fetch, takes no pause
\* and returns a table of zero rows without a fault.
C9_EmptyRosterReturnsEmptyTable ==
  (df_players = <<>> /\ pc # "loop") =>
    /\ requests = <<>>
    /\ slept = 0
    /\ fault = ""
    /\ players_df = Bound(<<>>)

----------------------------------------------------------------------------
(* Properties of the identity record, checked under SpecNames *)

\* s[a..b] is a maximal run of non-whitespace characters of s.
IsToken(s, a, b) ==
  /\ a <= b
  /\ \A q \in a..b : ~IsSpace(s[q])
  /\ a = 1 \/ IsSpace(s[a - 1])
  /\ b = Len(s) \/ IsSpace(s[b + 1])

TokenSpans(s) == {sp \in (1..Len(s)) \X (1..Len(s)) : IsToken(s, sp[1], sp[2])}

FirstSpan(s) == CHOOSE sp \in TokenSpans(s) : \A o \in TokenSpans(s) : sp[1] <= o[1]
LastSpan(s) == CHOOSE sp \in TokenSpans(s) : \A o \in TokenSpans(s) : o[1] <= sp[1]
Text(s, sp) == SubSeq(s, sp[1], sp[2])

\* C8: the display name "Smith, John" gives first_name "John" and last_name
\* "Smith".
C8_SmithJohn ==
  (name_in = SmithJohn /\ pc # "name") =>
    /\ pc = "built"
    /\ identity.first_name = <<"J", "o", "h", "n">>
    /\ identity.last_name = <<"S", "m", "i", "t", "h">>

\* C10: a display name with at least one token builds a record without a fault:
\* first_name is its last token and last_name its first token, so a single token
\* fills both fields and the tokens between the first and the last fill neither.
C10_LastTokenFirstToken ==
  /\ (pc # "name" /\ TokenSpans(name_in) # {}) => pc = "built"
  /\ pc = "built" =>
       /\ TokenSpans(name_in) # {}
       /\ identity.first_name = Text(name_in, LastSpan(name_in))
       /\ identity.last_name = Text(name_in, FirstSpan(name_in))
       /\ Cardinality(TokenSpans(name_in)) = 1 =>
            identity.first_name = identity.last_name

\* A record built from a name of three tokens whose middle token is in neither
\* field.
C10_Witness ==
  /\ pc = "built"
  /\ Cardinality(TokenSpans(name_in)) = 3
  /\ \E sp \in TokenSpans(name_in) :
       /\ Text(name_in, sp) # identity.first_name
       /\ Text(name_in, sp) # identity.last_name

====
